---- MODULE Spec2Model ----
(***************************************************************************)
(* Model of src/backend.js: the conservator-assessment backend that keeps  *)
(* batches, items, selections and photos in a spreadsheet document, photo  *)
(* files in a folder store and a batch -> folder mapping in script         *)
(* properties.                                                             *)
(*                                                                         *)
(* A sheet is a grid: a sequence of rows (row 1 is the Header Row), every  *)
(* row a sequence of cells of the same width.  A blank cell is "".  The    *)
(* document ss maps the names of the sheets that exist to their grids.     *)
(***************************************************************************)
EXTENDS Integers, Sequences, FiniteSets, TLC

VARIABLES
    ss,       \* the spreadsheet document: sheet name -> grid
    props,    \* script properties: key -> value
    folders,  \* names of the client folders under the photo root
    files,    \* sequence of the files created, [folder, name]
    clock,    \* the last instant read by new Date(), in milliseconds
    uuids,    \* number of identifiers drawn from Utilities.getUuid()
    calls,    \* number of requests served so far
    reqs,     \* concurrent appendRowAtKey_ requests: their locals and position
    hist,     \* history: per batch identifier, the saveItem calls that returned
    last      \* the last call: its operation, arguments and outcome

vars == <<ss, props, folders, files, clock, uuids, calls, reqs, hist, last>>

\* ---------------------------------------------------------------- bounds

\* rows of a sheet made by insertSheet (the platform makes 1000)
DefaultRows == 3
\* columns of a sheet made by insertSheet (the platform makes 26)
DefaultCols == 2
\* requests served in one run of the document-level specification
MaxCalls == 3
\* the instants new Date() can return: 0..MaxClock
MaxClock == 1
\* instants per second and seconds per day, on the model's scale
TicksPerSecond == 2
SecondsPerDay == 2
\* selections of one saveItem payload
MaxSelections == 1
\* photo entries of one savePhotosDataUrls call
MaxPhotos == 2
\* helper calls in one run of the store-level specification
MaxStoreCalls == 2
\* data rows of a hand-edited sheet the store-level specification starts from
MaxInitRows == 2
MaxNoteCodes == 2
MaxRequests == 2
MaxConcRows == 1

\* ------------------------------------------------------- program constants

SH_BATCHES == "Batches"
SH_ITEMS == "Items"
SH_SELECT == "Selections"
SH_PHOTOS == "Photos"

HEADERS ==
    (SH_BATCHES :> <<"BatchID", "Client", "StartDate", "Assessor", "Status">>) @@
    (SH_ITEMS :> <<"ItemID", "BatchID", "Code", "PerilType", "ImpactLevel", "Type",
                   "Title", "Artist", "Material", "Date", "Dimensions", "Features",
                   "HistoricIssuesPresent", "HistoricCode", "HistoricNotes",
                   "TreatmentTimeMinutes", "TreatmentTimeUnit", "TreatmentTime",
                   "AdditionalNotes", "OtherNotes", "Notes", "CreatedAt">>) @@
    (SH_SELECT :> <<"SelectionID", "ItemID", "OptionCode", "Severity",
                    "ExtentPercent", "Location", "ItemType", "UseSeverity",
                    "SeverityWord", "BasePhrase", "IsLocalized", "LocPart",
                    "ExtPart", "CondLine", "GlobalFrag", "LocalText", "LocalWhere",
                    "NeedsReplacement", "NeedsReupholstery">>) @@
    (SH_PHOTOS :> <<"PhotoID", "ItemID", "Image", "Caption", "TakenAt", "Lat",
                    "Lng", "Uploader">>)

\* Object.keys(HEADERS): the insertion order of the sheet names
HeaderNames == <<SH_BATCHES, SH_ITEMS, SH_SELECT, SH_PHOTOS>>

\* ---------------------------------------------------------------- helpers

Range(s) == {s[i] : i \in 1..Len(s)}

Max(S) == CHOOSE m \in S : \A n \in S : n <= m

\* Array.prototype.indexOf, 1-based; 0 stands for JavaScript's -1
RECURSIVE IndexFrom(_, _, _)
IndexFrom(s, x, i) ==
    IF i > Len(s) THEN 0
    ELSE IF s[i] = x THEN i
    ELSE IndexFrom(s, x, i + 1)

IndexOf(s, x) == IndexFrom(s, x, 1)

Blanks(n) == [i \in 1..n |-> ""]

\* A cell that holds a formula whose result is the empty text: it is content
\* of the sheet, and its value and its displayed text are both empty.
FormulaBlank == "=IF(FALSE,1,\"\")"

\* Range.getValues / Range.getDisplayValues of one cell
Value(cell) == IF cell = FormulaBlank THEN "" ELSE cell

Display(cell) == IF cell = FormulaBlank THEN "" ELSE cell

\* ------------------------------------------------------- the Sheet object

getMaxRows(g) == Len(g)

getMaxColumns(g) == Len(g[1])

\* Sheet.getLastColumn: the last column that has content, 0 on an empty sheet
getLastColumn(g) ==
    LET used == {c \in 1..getMaxColumns(g) : \E r \in 1..getMaxRows(g) : g[r][c] # ""}
    IN  IF used = {} THEN 0 ELSE Max(used)

\* Sheet.getLastRow: the last row that has content, 0 on an empty sheet
getLastRow(g) ==
    LET used == {r \in 1..getMaxRows(g) : \E c \in 1..getMaxColumns(g) : g[r][c] # ""}
    IN  IF used = {} THEN 0 ELSE Max(used)

\* Spreadsheet.insertSheet: a blank grid of the platform's default size
insertSheet == [r \in 1..DefaultRows |-> Blanks(DefaultCols)]

\* Sheet.insertColumnsAfter(k, n): n blank columns after column k
insertColumnsAfter(g, k, n) ==
    [r \in 1..Len(g) |-> SubSeq(g[r], 1, k) \o Blanks(n) \o SubSeq(g[r], k + 1, Len(g[r]))]

\* The grid grown to hold cell (r, c): a write past the last row or column of
\* a sheet adds the rows and columns it needs.
Grown(g, r, c) ==
    LET w == IF c > getMaxColumns(g) THEN c ELSE getMaxColumns(g)
        h == IF r > getMaxRows(g) THEN r ELSE getMaxRows(g)
    IN  IF r <= getMaxRows(g) /\ c <= getMaxColumns(g) THEN g
        ELSE [i \in 1..h |->
                 IF i <= Len(g) THEN g[i] \o Blanks(w - Len(g[i])) ELSE Blanks(w)]

\* sh.getRange(r, c).setValue(v)
setValue(g, r, c, v) ==
    LET b == Grown(g, r, c)
    IN  [b EXCEPT ![r][c] = v]

\* sh.getRange(r, c, 1, vals.length).setValues([vals])
setValues(g, r, c, vals) ==
    IF vals = <<>> THEN g
    ELSE LET b == Grown(g, r, c + Len(vals) - 1)
         IN  [b EXCEPT ![r] = [j \in 1..Len(b[r]) |->
                                  IF j >= c /\ j < c + Len(vals) THEN vals[j - c + 1]
                                  ELSE b[r][j]]]

\* ------------------------------------------------------ spreadsheet helpers

getHeaders_(g) ==
    LET Cells(lastCol) == [c \in 1..lastCol |-> Value(g[1][c])]
    IN  Cells(Max({1, getLastColumn(g)}))

\* header.filter(h => current.indexOf(h) === -1)
MissingOf(header, current) ==
    SelectSeq(header, LAMBDA h : IndexOf(current, h) = 0)

\* A plausible slip: the header is written again over row 1 instead of only
\* the missing names after the last column.
ensureSheet_Rewrite(doc, name, header) ==
    IF name \notin DOMAIN doc
    THEN doc @@ (name :> setValues(insertSheet, 1, 1, header))
    ELSE [doc EXCEPT ![name] = setValues(doc[name], 1, 1, header)]

\* ensureSheet_(name, header): the document after the call
ensureSheet_(doc, name, header) ==
    IF name \notin DOMAIN doc
    THEN IF Len(header) > 0
         THEN doc @@ (name :> setValues(insertSheet, 1, 1, header))
         ELSE doc @@ (name :> insertSheet)
    ELSE IF Len(header) > 0
         THEN LET Repair(sh, current, missing) ==
                      IF Len(missing) > 0
                      THEN [doc EXCEPT ![name] =
                               setValues(insertColumnsAfter(sh, Len(current), Len(missing)),
                                         1, Len(current) + 1, missing)]
                      ELSE doc
                  Current(sh, current) == Repair(sh, current, MissingOf(header, current))
              IN  Current(doc[name], getHeaders_(doc[name]))
         ELSE doc

\* A plausible slip: the sheet row of the last filled key is returned, not the
\* row below it.
RECURSIVE ScanUpLastFilled(_, _)
ScanUpLastFilled(colVals, i) ==
    IF i < 1 THEN 2
    ELSE IF colVals[i] # "" THEN i + 1
    ELSE ScanUpLastFilled(colVals, i - 1)

\* the loop of nextFreeRowByHeader_, with colVals indexed from 1
RECURSIVE ScanUp(_, _)
ScanUp(colVals, i) ==
    IF i < 1 THEN 2
    ELSE IF colVals[i] # "" THEN i + 1 + 1
    ELSE ScanUp(colVals, i - 1)

\* A plausible slip: the first blank key cell from the top is taken.
RECURSIVE ScanDown(_, _)
ScanDown(colVals, i) ==
    IF i > Len(colVals) THEN Len(colVals) + 2
    ELSE IF colVals[i] = "" THEN i + 1
    ELSE ScanDown(colVals, i + 1)

nextFreeRowByHeader_FirstBlank(g, keyHeader) ==
    LET idx == IndexOf(getHeaders_(g), keyHeader)
        totalRows == getMaxRows(g) - 1
    IN  IF idx = 0 THEN 0
        ELSE ScanDown([i \in 1..totalRows |-> Display(g[i + 1][idx])], 1)

\* nextFreeRowByHeader_(sh, keyHeader); 0 stands for the thrown
\* 'Key header not found'
nextFreeRowByHeader_(g, keyHeader) ==
    LET Scan(idx, totalRows) ==
            IF idx = 0 THEN 0
            ELSE IF totalRows = 0 THEN 2
            ELSE ScanUp([i \in 1..totalRows |-> Display(g[i + 1][idx])], totalRows)
    IN  Scan(IndexOf(getHeaders_(g), keyHeader), Max({0, getMaxRows(g) - 1}))

\* A record is the sequence of its <<key, value>> pairs in Object.keys order.
Keys(obj) == {obj[i][1] : i \in 1..Len(obj)}

\* The forEach of appendRowAtKey_ from key i on, on the cells of row r.
\* fault = k > 0 makes the k-th setValue of the loop throw, the cells written
\* before it staying written; fault = 0 lets every write succeed.  Result: the
\* row and whether the loop threw.
RECURSIVE WriteCells(_, _, _, _, _)
WriteCells(row, headers, obj, i, fault) ==
    IF i > Len(obj) THEN [row |-> row, raised |-> FALSE]
    ELSE LET col == IndexOf(headers, obj[i][1])
         IN  IF col = 0 THEN WriteCells(row, headers, obj, i + 1, fault)
             ELSE IF fault = 1 THEN [row |-> row, raised |-> TRUE]
             ELSE WriteCells([row EXCEPT ![col] = obj[i][2]], headers, obj, i + 1,
                             IF fault > 1 THEN fault - 1 ELSE 0)

\* The sheet after the forEach of appendRowAtKey_ on row r: the sheet grows to
\* hold row r when the first cell is written.
WriteRow(g, r, headers, obj, fault) ==
    LET Put(old, w) ==
            [grid |-> IF w.row = old THEN g ELSE [Grown(g, r, 1) EXCEPT ![r] = w.row],
             raised |-> w.raised]
        From(old) == Put(old, WriteCells(old, headers, obj, 1, fault))
    IN  From(IF r <= Len(g) THEN g[r] ELSE Blanks(getMaxColumns(g)))

\* A plausible slip: the whole row is written, blanks for the columns the
\* record does not name.
appendRowAtKey_WholeRow(doc, name, keyHeader, obj, fault) ==
    IF name \notin DOMAIN doc THEN [doc |-> doc, raised |-> TRUE, row |-> 0]
    ELSE LET sh == doc[name]
             headers == getHeaders_(sh)
             r == nextFreeRowByHeader_(sh, keyHeader)
             vals == [c \in 1..Len(headers) |->
                         IF headers[c] \in Keys(obj)
                         THEN obj[CHOOSE i \in 1..Len(obj) : obj[i][1] = headers[c]][2]
                         ELSE ""]
         IN  IF r = 0 THEN [doc |-> doc, raised |-> TRUE, row |-> 0]
             ELSE [doc |-> [doc EXCEPT ![name] = setValues(sh, r, 1, vals)],
                   raised |-> FALSE, row |-> r]

\* appendRowAtKey_(name, keyHeader, obj): the document after the call, whether
\* it threw, and the row it allocated (0 when it threw before allocating)
appendRowAtKey_(doc, name, keyHeader, obj, fault) ==
    IF name \notin DOMAIN doc THEN [doc |-> doc, raised |-> TRUE, row |-> 0]
    ELSE LET Written(r, w) ==
                 [doc |-> [doc EXCEPT ![name] = w.grid], raised |-> w.raised, row |-> r]
             At(sh, headers, r) ==
                 IF r = 0 THEN [doc |-> doc, raised |-> TRUE, row |-> 0]
                 ELSE Written(r, WriteRow(sh, r, headers, obj, fault))
         IN  At(doc[name], getHeaders_(doc[name]),
                nextFreeRowByHeader_(doc[name], keyHeader))

\* ------------------------------------------------------------ the last call

NoCall ==
    [op |-> "none", name |-> "", header |-> <<>>, key |-> "", obj |-> <<>>,
     raised |-> FALSE, row |-> 0, existed |-> FALSE, added |-> 0,
     client |-> "", assessor |-> "", batchId |-> "", itemId |-> "", code |-> "",
     noPayload |-> FALSE, historicYes |-> FALSE, codes |-> <<>>, notes |-> "",
     photos |-> <<>>, submitted |-> 0, saved |-> 0]

\* ------------------------------------------------- store-level specification
\* The helpers called on their own, on a sheet that was edited by hand.

StoreSheet == SH_BATCHES

StoreKey == "BatchID"

\* Header Rows left by a hand edit: canonical names in any position, a
\* hand-added formula column, blank header cells.
InitHeaderRows ==
    { <<"">>, <<"BatchID">>, <<"Client">>,
      <<"BatchID", "Client">>, <<"Client", "BatchID">>, <<"Formula", "BatchID">>,
      <<"BatchID", "Formula">>, <<"", "BatchID">>, <<"Client", "Formula">>,
      <<"BatchID", "", "Formula">>, <<"Formula", "Client", "BatchID">> }

CellValues == {"", "v"}

GridsOf(hdr) ==
    UNION { { <<hdr>> \o body : body \in [1..n -> [1..Len(hdr) -> CellValues]] }
            : n \in 0..MaxInitRows }

\* Sheets whose formula column renders empty text in some rows.
FormulaGrids ==
    { << <<"BatchID", "Formula">>, <<"v", FormulaBlank>>, <<"", FormulaBlank>> >>,
      << <<"BatchID", "Formula">>, <<"v", "v">>, <<FormulaBlank, "v">> >>,
      << <<"BatchID">>, <<FormulaBlank>>, <<FormulaBlank>> >> }

InitGrids == FormulaGrids \cup UNION { GridsOf(hdr) : hdr \in InitHeaderRows }

\* The canonical header of the sheet as it grew over the life of the system.
HeaderVersions == { SubSeq(HEADERS[StoreSheet], 1, n) : n \in 0..Len(HEADERS[StoreSheet]) }

StoreRecords ==
    { <<>>,
      << <<"BatchID", "b1">> >>,
      << <<"BatchID", "b1">>, <<"Client", "c1">> >>,
      << <<"Client", "c1">>, <<"BatchID", "b1">> >>,
      << <<"Client", "c1">> >>,
      << <<"BatchID", "b1">>, <<"Unknown", "u1">> >>,
      << <<"Unknown", "u1">> >>,
      << <<"BatchID", "b1">>, <<"Status", "Open">>, <<"Client", "">> >> }

NoDoc == [n \in {} |-> <<>>]

StoreInit ==
    /\ ss \in {NoDoc} \cup { (StoreSheet :> g) : g \in InitGrids }
    /\ props = [k \in {} |-> ""]
    /\ folders = {}
    /\ files = <<>>
    /\ clock = 0
    /\ uuids = 0
    /\ calls = 0
    /\ reqs = <<>>
    /\ hist = [b \in {} |-> 0]
    /\ last = NoCall

StoreEnsure ==
    /\ calls < MaxStoreCalls
    /\ \E header \in HeaderVersions :
          /\ ss' = ensureSheet_(ss, StoreSheet, header)
          /\ last' = [NoCall EXCEPT !.op = "ensureSheet_", !.name = StoreSheet,
                                    !.header = header,
                                    !.existed = (StoreSheet \in DOMAIN ss),
                                    !.added = IF StoreSheet \in DOMAIN ss
                                              THEN Len(MissingOf(header, getHeaders_(ss[StoreSheet])))
                                              ELSE Len(header)]
    /\ calls' = calls + 1
    /\ UNCHANGED <<props, folders, files, clock, uuids, reqs, hist>>

StoreNextFree ==
    /\ calls < MaxStoreCalls
    /\ StoreSheet \in DOMAIN ss
    /\ \E key \in {StoreKey, "Client", "Status"} :
          LET r == nextFreeRowByHeader_(ss[StoreSheet], key)
          IN  last' = [NoCall EXCEPT !.op = "nextFreeRowByHeader_", !.name = StoreSheet,
                                     !.key = key, !.row = r, !.raised = (r = 0),
                                     !.existed = TRUE]
    /\ calls' = calls + 1
    /\ UNCHANGED <<ss, props, folders, files, clock, uuids, reqs, hist>>

StoreAppend ==
    /\ calls < MaxStoreCalls
    /\ \E obj \in StoreRecords :
          LET res == appendRowAtKey_(ss, StoreSheet, StoreKey, obj, 0)
          IN  /\ ss' = res.doc
              /\ last' = [NoCall EXCEPT !.op = "appendRowAtKey_", !.name = StoreSheet,
                                        !.key = StoreKey, !.obj = obj,
                                        !.row = res.row, !.raised = res.raised,
                                        !.existed = (StoreSheet \in DOMAIN ss)]
    /\ calls' = calls + 1
    /\ UNCHANGED <<props, folders, files, clock, uuids, reqs, hist>>

\* initializeDatabase(): ensureSheet_ for every name of HEADERS, in order
RECURSIVE EnsureAll(_, _)
EnsureAll(doc, names) ==
    IF names = <<>> THEN doc
    ELSE EnsureAll(ensureSheet_(doc, Head(names), HEADERS[Head(names)]), Tail(names))

initializeDatabase ==
    /\ ss' = EnsureAll(ss, HeaderNames)
    /\ last' = [NoCall EXCEPT !.op = "initializeDatabase"]
    /\ calls' = calls + 1
    /\ UNCHANGED <<props, folders, files, clock, uuids, reqs, hist>>

StoreInitializeDatabase == calls < MaxStoreCalls /\ initializeDatabase

StoreNext == StoreEnsure \/ StoreNextFree \/ StoreAppend \/ StoreInitializeDatabase

SpecStore == StoreInit /\ [][StoreNext]_vars

\* ------------------------------------------------ claims on the store helpers

\* the cell (r, c) of a grid, blank outside its dimensions
CellAt(g, r, c) == IF r <= Len(g) /\ c <= Len(g[1]) THEN g[r][c] ELSE ""

\* The canonical names that no cell of the live Header Row holds, in
\* canonical order.
NamesMissing(g, header) ==
    SelectSeq(header, LAMBDA h : \A c \in 1..Len(g[1]) : Value(g[1][c]) # h)

\* g2 is g with exactly the names `missing` appended to row 1 after the last
\* column of g that has content, every other cell as it was.
AppendedOnly(g, g2, missing) ==
    LET n == IF getLastColumn(g) > 1 THEN getLastColumn(g) ELSE 1
    IN  /\ Len(g2) = Len(g)
        /\ \A r \in 1..Len(g2) : \A c \in 1..Len(g2[1]) :
              g2[r][c] = IF r = 1 /\ c > n /\ c <= n + Len(missing) THEN missing[c - n]
                         ELSE IF c <= n THEN g[r][c]
                         ELSE ""
        /\ \A r \in 1..Len(g) : \A c \in 1..Len(g[1]) : c > n => g[r][c] = ""

EnsureKeeps(doc, doc2, name, header) ==
    /\ AppendedOnly(doc[name], doc2[name], NamesMissing(doc[name], header))
    /\ (NamesMissing(doc[name], header) = <<>> => doc2[name] = doc[name])
    /\ NamesMissing(doc2[name], header) = <<>>
    /\ \A c, d \in 1..Len(doc2[name][1]) :
          (c # d /\ doc2[name][1][c] = doc2[name][1][d] /\ doc2[name][1][c] \in Range(header))
              => \E e, f \in 1..Len(doc[name][1]) :
                    e # f /\ doc[name][1][e] = doc[name][1][f]
                          /\ doc[name][1][e] = doc2[name][1][c]

\* C1: ensureSheet_ on an existing sheet appends exactly the canonical names
\* missing from row 1, after the last existing column and in canonical order,
\* and changes no other cell of the Header Row or of a data row; with nothing
\* missing the sheet is unchanged, and no canonical column is duplicated.  The
\* same holds for every sheet initializeDatabase finds.
C1_EnsureAppendsExactlyMissing ==
    [][ /\ (last'.op = "ensureSheet_" /\ last'.existed)
            => /\ EnsureKeeps(ss, ss', last'.name, last'.header)
               /\ ensureSheet_(ss', last'.name, last'.header) = ss'
        /\ last'.op = "initializeDatabase"
            => /\ \A name \in DOMAIN ss \cap DOMAIN HEADERS :
                     EnsureKeeps(ss, ss', name, HEADERS[name])
               /\ EnsureAll(ss', HeaderNames) = ss'
      ]_vars

\* C1 witness: an ensureSheet_ call has appended canonical names to a sheet
\* that had a hand-added column and data.
C1_Witness ==
    /\ last.op = "ensureSheet_"
    /\ last.existed
    /\ last.added > 1
    /\ \E c \in 1..Len(ss[last.name][1]) : ss[last.name][1][c] = "Formula"
    /\ \E r \in 2..Len(ss[last.name]) : \E c \in 1..Len(ss[last.name][1]) :
          ss[last.name][r][c] # ""

\* The key column of a grid: the column whose header cell holds the key.
KeyColumn(g, key) == CHOOSE c \in 1..Len(g[1]) : g[1][c] = key

\* The data rows whose displayed key is not empty.
FilledRows(g, key) == {r \in 2..Len(g) : Display(g[r][KeyColumn(g, key)]) # ""}

\* C2: on a sheet whose Header Row holds the key column, nextFreeRowByHeader_
\* returns one past the last data row whose displayed key is not empty, and 2
\* when there is none.
C2_NextFreeRowIsPastLastKey ==
    (last.op = "nextFreeRowByHeader_" /\ last.key \in Range(ss[last.name][1]))
        => /\ ~last.raised
           /\ last.row = IF FilledRows(ss[last.name], last.key) = {} THEN 2
                         ELSE Max(FilledRows(ss[last.name], last.key)) + 1

\* C2 witness: the call answered a row that lies below a blank key cell and
\* above a row that has values in other columns only.
C2_Witness ==
    /\ last.op = "nextFreeRowByHeader_"
    /\ last.key = StoreKey
    /\ last.row = 4
    /\ Len(ss[last.name]) >= 4
    /\ Display(ss[last.name][2][KeyColumn(ss[last.name], last.key)]) = ""
    /\ \E c \in 1..Len(ss[last.name][1]) : ss[last.name][4][c] # ""

FormatDay(t) == ToString(t \div (TicksPerSecond * SecondsPerDay))

\* Utilities.formatDate(now, TZ, 'yyyy-MM-dd HH:mm:ss') and 'yyyyMMdd-HHmmss':
\* the instant to the second
FormatSeconds(t) ==
    FormatDay(t) \o "-" \o ToString((t \div TicksPerSecond) % SecondsPerDay)

\* Utilities.formatDate(now, TZ, 'yyyyMMdd-HHmmss-SSS'): to the millisecond
FormatMillis(t) == FormatSeconds(t) \o "-" \o ToString(t % TicksPerSecond)

\* String.prototype.trim on the texts of the model
Trim(t) ==
    CASE t = " Acme" -> "Acme"
      [] t = " " -> ""
      [] t = "h1 " -> "h1"
      [] OTHER -> t

\* String.prototype.toLowerCase on the texts of the model
Lower(t) ==
    CASE t = "H1" -> "h1"
      [] t = "Replacement" -> "replacement"
      [] t = "REPLACEMENT" -> "replacement"
      [] t = "NEEDED" -> "needed"
      [] t = "Reupholstery" -> "reupholstery"
      [] OTHER -> t

\* String(n).padStart(width, '0')
PadStart(n, width) ==
    LET t == ToString(n)
    IN  IF Len(t) + 2 <= width THEN "00" \o t
        ELSE IF Len(t) + 1 <= width THEN "0" \o t
        ELSE t

\* The n-th value of Utilities.getUuid(): its first 8 characters and the rest.
\* Distinct draws differ in their first 8 characters.
getUuid(n) == [head |-> "uuid0" \o PadStart(n, 3), rest |-> "-0000-0000"]

\* uuid.slice(0, 8)
Slice8(u) == u.head

UuidText(u) == u.head \o u.rest

\* PropertiesService.getScriptProperties().setProperty(k, v)
setProperty(p, k, v) == [x \in DOMAIN p \cup {k} |-> IF x = k THEN v ELSE p[x]]

\* Folder.getId() of the folder of that name under the photo root
FolderId(name) == "folder:" \o name

\* ensureClientFolder_(rootId, client): the name of the folder it returns
ensureClientFolder_(client) == Trim(IF client = "" THEN "Unnamed Client" ELSE client)

\* ----------------------------------------------------------- API: newBatch

\* A plausible slip: the arguments are validated after the folder and the
\* properties were set up.
newBatchLateCheck(client, assessorName) ==
    LET name == ensureClientFolder_(client)
        batchId == "BATCH-" \o FormatMillis(clock)
    IN  /\ folders' = folders \cup {name}
        /\ props' = setProperty(setProperty(props, "CLIENT_" \o batchId, client),
                                "PHOTOS_" \o batchId, FolderId(name))
        /\ last' = [NoCall EXCEPT !.op = "newBatch", !.client = client,
                                  !.assessor = assessorName,
                                  !.raised = (client = "" \/ assessorName = ""),
                                  !.batchId = batchId]
        /\ calls' = calls + 1
        /\ UNCHANGED <<ss, files, clock, uuids, reqs, hist>>

\* newBatch(client, assessorName); new Date() returns the instant clock
newBatch(client, assessorName) ==
    IF client = "" \/ assessorName = ""
    THEN /\ last' = [NoCall EXCEPT !.op = "newBatch", !.client = client,
                                   !.assessor = assessorName, !.raised = TRUE]
         /\ calls' = calls + 1
         /\ UNCHANGED <<ss, props, folders, files, clock, uuids, reqs, hist>>
    ELSE \E batchId \in {"BATCH-" \o FormatMillis(clock)} :
         \E name \in {ensureClientFolder_(client)} :
         \E res \in {appendRowAtKey_(ensureSheet_(ss, SH_BATCHES, HEADERS[SH_BATCHES]),
                        SH_BATCHES, "BatchID",
                        << <<"BatchID", batchId>>,
                           <<"Client", client>>,
                           <<"StartDate", FormatDay(clock)>>,
                           <<"Assessor", assessorName>>,
                           <<"Status", "Open">> >>, 0)} :
             /\ folders' = folders \cup {name}
             /\ props' = setProperty(setProperty(props, "CLIENT_" \o batchId, client),
                                     "PHOTOS_" \o batchId, FolderId(name))
             /\ ss' = res.doc
             /\ last' = [NoCall EXCEPT !.op = "newBatch", !.client = client,
                                       !.assessor = assessorName,
                                       !.raised = res.raised, !.batchId = batchId,
                                       !.row = res.row]
             /\ calls' = calls + 1
             /\ UNCHANGED <<files, clock, uuids, reqs, hist>>

\* ------------------------------------------------- notes and item codes

\* Array.prototype.join
RECURSIVE Join(_, _)
Join(out, sep) ==
    IF out = <<>> THEN ""
    ELSE IF Len(out) = 1 THEN out[1]
    ELSE out[1] \o sep \o Join(Tail(out), sep)

HistoricSentence1 ==
    "Historic issues, including age, wear and use issues will not be addressed as part of the claim"

HistoricSentence2 ==
    "Historic issues can be addressed outside the claim on a private client basis should this be of interest to the client."

MinorSentence ==
    "Some minor visible difference may remain in impacted area following treatment"

StructuralSentence ==
    "Underlying material instability will remain following treatment"

FlatteningSentence ==
    "Given the materials we may face limitation in flattening the artwork, we will take this to a safe level"

structural ==
    <<"STRUCT_DAMAGED", "JOINTS_LOOSE", "VENEER_LIFTING", "VENEER_LOSS",
      "PNT_LIFTING", "PNT_LOSS", "PNT_TEAR", "WOP_MEDIA_LOSS", "WOP_HINGE_FAIL",
      "FRM_STRUCT", "GILT_ORNAMENT_CRACK", "OBJ_CORROSION", "OBJ_OXIDATION",
      "CERAMIC_CRACK", "CERAMIC_CHIP", "CERAMIC_BREAK", "TXT_TEAR",
      "UPH_FABRIC_DAMAGE", "RUG_COLOUR_RUN">>

flattening == <<"WOP_COCKLING", "PNT_DEFORMATION">>

\* the separator of out.join('\\n') in the source: a backslash and the letter n
JoinSeparator == "\\n"

\* buildNotes_(payload), from the payload's historicYes and the codes of its
\* selections in order
buildNotes_(historicYes, selCodes) ==
    LET codes == Range(selCodes)
        out == (IF historicYes THEN <<HistoricSentence1, HistoricSentence2>> ELSE <<>>)
               \o (IF Cardinality(codes) > 0 THEN <<MinorSentence>> ELSE <<>>)
               \o (IF \E i \in 1..Len(structural) : structural[i] \in codes
                   THEN <<StructuralSentence>> ELSE <<>>)
               \o (IF \E i \in 1..Len(flattening) : flattening[i] \in codes
                   THEN <<FlatteningSentence>> ELSE <<>>)
    IN  Join(out, JoinSeparator)

\* the last position of x in s, 0 when it is not there
LastIndexOf(s, x) ==
    LET at == {i \in 1..Len(s) : s[i] = x}
    IN  IF at = {} THEN 0 ELSE Max(at)

\* getAll_(name): the data rows as objects keyed by header name; of two
\* columns of one name the later one gives the value
getAll_(doc, name) ==
    IF name \notin DOMAIN doc THEN <<>>
    ELSE LET Objects(sh, lastRow, at) ==
                 IF lastRow <= 1 THEN <<>>
                 ELSE [i \in 1..(lastRow - 1) |->
                          [key \in DOMAIN at |-> Value(sh[i + 1][at[key]])]]
             Keyed(sh, lastRow, head) ==
                 Objects(sh, lastRow, [key \in Range(head) |-> LastIndexOf(head, key)])
             Values(sh, lastRow, lastCol) ==
                 Keyed(sh, lastRow, [c \in 1..lastCol |-> Value(sh[1][c])])
         IN  Values(doc[name], Max({1, getLastRow(doc[name])}),
                    Max({1, getLastColumn(doc[name])}))

\* A plausible slip: every item of the sheet is counted, whatever its batch.
nextCodeForBatch_AllItems(doc, batchId) ==
    "I" \o PadStart(Len(getAll_(doc, SH_ITEMS)) + 1, 3)

\* nextCodeForBatch_(batchId)
nextCodeForBatch_(doc, batchId) ==
    LET items == SelectSeq(getAll_(doc, SH_ITEMS),
                           LAMBDA r : "BatchID" \in DOMAIN r /\ r["BatchID"] = batchId)
        n == Len(items) + 1
    IN  "I" \o PadStart(n, 3)

\* getNoteFromNotesRules_(code): the body of the first rule, below the first
\* row, whose code equals the given one without regard to case
RECURSIVE FirstRule(_, _, _)
FirstRule(v, code, i) ==
    IF i > Len(v) THEN ""
    ELSE LET a == Trim(Value(v[i][1]))
             b == IF Len(v[i]) >= 2 THEN Trim(Value(v[i][2])) ELSE ""
         IN  IF a = "" THEN FirstRule(v, code, i + 1)
             ELSE IF Lower(a) = Lower(code) THEN b
             ELSE FirstRule(v, code, i + 1)

getNoteFromNotesRules_(doc, rawCode) ==
    LET code == Trim(rawCode)
    IN  IF code = "" THEN ""
        ELSE IF "NotesRules" \notin DOMAIN doc THEN ""
        ELSE LET Find(v) == IF Len(v) < 2 THEN "" ELSE FirstRule(v, code, 2)
                 Values(sh, lastRow, lastCol) ==
                     Find([r \in 1..lastRow |-> SubSeq(sh[r], 1, lastCol)])
             IN  Values(doc["NotesRules"], Max({1, getLastRow(doc["NotesRules"])}),
                        Max({1, getLastColumn(doc["NotesRules"])}))

\* /phrase/i.test(note), the note and the phrase as sequences of words
TestPhrase(words, phrase) ==
    \E i \in 1..Len(words) :
        /\ i + Len(phrase) - 1 <= Len(words)
        /\ \A j \in 1..Len(phrase) : Lower(words[i + j - 1]) = phrase[j]

\* String(s.note || ''): the words of the note with single spaces between
NoteText(words) == Join(words, " ")

UpperBool(b) == IF b THEN "TRUE" ELSE "FALSE"

\* ------------------------------------------------------------ API: saveItem

\* A payload of the form: the fields the form did not fill are empty.
EmptyPayload ==
    [isNull |-> FALSE, batchId |-> "", peril |-> "", impact |-> "", type |-> "",
     title |-> "", artist |-> "", material |-> "", date |-> "", dimensions |-> "",
     features |-> "", historicYes |-> FALSE, historicCode |-> "",
     historicNotes |-> "", TreatmentTimeMinutes |-> "", TreatmentTimeUnit |-> "",
     TreatmentTime |-> "", incidentNotes |-> "", otherNotes |-> "",
     selections |-> <<>>]

\* saveItem called with no payload at all
NullPayload == [EmptyPayload EXCEPT !.isNull = TRUE]

SelectionCodes(payload) == [i \in 1..Len(payload.selections) |-> payload.selections[i].code]

\* the record saveItem writes to the Items sheet
ItemRecord(doc, payload, itemId, code, createdAt) ==
    << <<"ItemID", itemId>>,
       <<"BatchID", payload.batchId>>,
       <<"Code", code>>,
       <<"PerilType", payload.peril>>,
       <<"ImpactLevel", payload.impact>>,
       <<"Type", payload.type>>,
       <<"Title", payload.title>>,
       <<"Artist", payload.artist>>,
       <<"Material", payload.material>>,
       <<"Date", payload.date>>,
       <<"Dimensions", payload.dimensions>>,
       <<"Features", payload.features>>,
       <<"HistoricIssuesPresent", UpperBool(payload.historicYes)>>,
       <<"HistoricCode", Lower(payload.historicCode)>>,
       <<"HistoricNotes", payload.historicNotes>>,
       <<"TreatmentTimeMinutes", payload.TreatmentTimeMinutes>>,
       <<"TreatmentTimeUnit", payload.TreatmentTimeUnit>>,
       <<"TreatmentTime", payload.TreatmentTime>>,
       <<"AdditionalNotes", payload.incidentNotes>>,
       <<"OtherNotes", payload.otherNotes>>,
       <<"CreatedAt", createdAt>>,
       <<"Notes", getNoteFromNotesRules_(doc, payload.historicCode)>> >>

\* the record saveItem writes to the Selections sheet for one selection
SelectionRecord(sel, selectionId, itemId, type) ==
    << <<"SelectionID", selectionId>>,
       <<"ItemID", itemId>>,
       <<"OptionCode", sel.code>>,
       <<"Severity", "">>,
       <<"ExtentPercent", sel.extent>>,
       <<"Location", sel.location>>,
       <<"ItemType", type>>,
       <<"UseSeverity", "">>,
       <<"SeverityWord", "">>,
       <<"BasePhrase", "">>,
       <<"IsLocalized", UpperBool(sel.localized)>>,
       <<"LocPart", "">>,
       <<"ExtPart", "">>,
       <<"CondLine", "">>,
       <<"GlobalFrag", IF sel.localized THEN "" ELSE NoteText(sel.note)>>,
       <<"LocalText", IF sel.localized THEN NoteText(sel.note) ELSE "">>,
       <<"LocalWhere", sel.location>>,
       <<"NeedsReplacement",
         IF TestPhrase(sel.note, <<"replacement", "needed">>) THEN "TRUE" ELSE "FALSE">>,
       <<"NeedsReupholstery",
         IF TestPhrase(sel.note, <<"reupholstery", "needed">>) THEN "TRUE" ELSE "FALSE">> >>

\* the forEach over payload.selections from selection i on; n is the number
\* of identifiers drawn before the loop
RECURSIVE WriteSelections(_, _, _, _, _)
WriteSelections(doc, payload, itemId, n, i) ==
    IF i > Len(payload.selections) THEN doc
    ELSE WriteSelections(
             appendRowAtKey_(doc, SH_SELECT, "SelectionID",
                 SelectionRecord(payload.selections[i],
                                 "SEL-" \o Slice8(getUuid(n + i)), itemId, payload.type),
                 0).doc,
             payload, itemId, n, i + 1)

\* saveItem(payload); new Date() returns the instant clock
saveItem(payload) ==
    IF payload.isNull \/ payload.batchId = ""
    THEN /\ last' = [NoCall EXCEPT !.op = "saveItem", !.noPayload = payload.isNull,
                                   !.batchId = payload.batchId, !.raised = TRUE]
         /\ calls' = calls + 1
         /\ UNCHANGED <<ss, props, folders, files, clock, uuids, reqs, hist>>
    ELSE \E doc \in {ensureSheet_(ensureSheet_(ss, SH_ITEMS, HEADERS[SH_ITEMS]),
                                    SH_SELECT, HEADERS[SH_SELECT])} :
         \E itemId \in {"ITM-" \o Slice8(getUuid(uuids + 1))} :
         \E code \in {nextCodeForBatch_(doc, payload.batchId)} :
         \E item \in {appendRowAtKey_(doc, SH_ITEMS, "ItemID",
                         ItemRecord(doc, payload, itemId, code, FormatSeconds(clock)), 0)} :
         LET notesAuto == buildNotes_(payload.historicYes, SelectionCodes(payload))
         IN  /\ ss' = WriteSelections(item.doc, payload, itemId, uuids + 1, 1)
             /\ uuids' = uuids + 1 + Len(payload.selections)
             /\ hist' = [b \in DOMAIN hist \cup {payload.batchId} |->
                            IF b = payload.batchId
                            THEN (IF b \in DOMAIN hist THEN hist[b] ELSE 0) + 1
                            ELSE hist[b]]
             /\ last' = [NoCall EXCEPT !.op = "saveItem", !.batchId = payload.batchId,
                                       !.itemId = itemId, !.code = code,
                                       !.row = item.row, !.notes = notesAuto,
                                       !.historicYes = payload.historicYes,
                                       !.codes = SelectionCodes(payload)]
             /\ calls' = calls + 1
             /\ UNCHANGED <<props, folders, files, clock, reqs>>

\* -------------------------------------------------- API: savePhotosDataUrls
\* A data URL is the sequence of its pieces; a piece that starts with ';' is
\* a parameter, "\n" is a line break, the pieces after ";base64," the body.

IsParameter(piece) == piece \in {";base64,", ";charset=utf-8"}

\* the position of the first parameter of the URL, 0 when it has none
RECURSIVE FirstParameter(_, _)
FirstParameter(url, i) ==
    IF i > Len(url) THEN 0
    ELSE IF IsParameter(url[i]) THEN i
    ELSE FirstParameter(url, i + 1)

\* dataUrl.match(/^data:(image\/[^;]+);base64,(.+)$/): the position of
\* ";base64," in a URL that matches, 0 for a URL that does not
MatchDataUrl(url) ==
    LET i == FirstParameter(url, 1)
    IN  IF /\ Len(url) >= 5
           /\ url[1] = "data:"
           /\ url[2] = "image/"
           /\ i > 3
           /\ url[i] = ";base64,"
           /\ i < Len(url)
           /\ \A j \in (i + 1)..Len(url) : url[j] # "\n"
        THEN i
        ELSE 0

\* m[1]
ContentType(url) == Join(SubSeq(url, 2, MatchDataUrl(url) - 1), "")

\* whether Utilities.base64Decode(m[2]) returns; it throws on a body that is
\* not base64 text
Base64Decodes(url) ==
    \A j \in (MatchDataUrl(url) + 1)..Len(url) : url[j] \in {"QUJD", "Zm9v"}

\* Lines 467-472: what savePhotosDataUrls does before it reaches the photos.
\* A plausible slip: the folder is looked up before the empty list returns.
PhotosEntryFolderFirst(properties, batchId, itemId, photos) ==
    IF batchId = "" \/ itemId = "" THEN "throw"
    ELSE IF ("PHOTOS_" \o batchId) \notin DOMAIN properties THEN "ensure, throw"
    ELSE IF photos = <<>> THEN "return"
    ELSE "ensure, loop"

PhotosEntry(properties, batchId, itemId, photos) ==
    IF batchId = "" \/ itemId = "" THEN "throw"
    ELSE IF photos = <<>> THEN "return"
    ELSE IF \/ ("PHOTOS_" \o batchId) \notin DOMAIN properties
            \/ properties["PHOTOS_" \o batchId] = ""
         THEN "ensure, throw"
    ELSE "ensure, loop"

\* A plausible slip: the PhotoID is left empty, like the caption.
PhotoRecordNoId(photoId, itemId, fileId, takenAt) ==
    << <<"PhotoID", "">>,
       <<"ItemID", itemId>>,
       <<"Image", fileId>>,
       <<"Caption", "">>,
       <<"TakenAt", takenAt>>,
       <<"Lat", "">>,
       <<"Lng", "">>,
       <<"Uploader", "">> >>

\* the record savePhotosDataUrls writes to the Photos sheet
PhotoRecord(photoId, itemId, fileId, takenAt) ==
    << <<"PhotoID", photoId>>,
       <<"ItemID", itemId>>,
       <<"Image", fileId>>,
       <<"Caption", "">>,
       <<"TakenAt", takenAt>>,
       <<"Lat", "">>,
       <<"Lng", "">>,
       <<"Uploader", "">> >>

\* One turn of photos.forEach, for the entry p at 0-based position idx.  st
\* holds the document, the files, the identifiers drawn and the count so far.
\* p.createFails and p.fault are the outcome of the folder and of the sheet
\* for this entry: createFile throwing, the p.fault-th cell write throwing.
\* A plausible slip: the count is raised before the row is appended.
PhotoTurnCountsEarly(st, p, idx, itemId, folderId, now) ==
    IF MatchDataUrl(p.dataUrl) = 0 THEN st
    ELSE IF ~Base64Decodes(p.dataUrl) THEN st
    ELSE IF p.createFails THEN st
    ELSE LET res == appendRowAtKey_(st.doc, SH_PHOTOS, "PhotoID",
                        PhotoRecord(UuidText(getUuid(st.uuids + 1)), itemId,
                                    "file" \o ToString(Len(st.files) + 1),
                                    FormatSeconds(now)), p.fault)
         IN  [doc |-> res.doc,
              files |-> Append(st.files, [folder |-> folderId, name |-> itemId]),
              uuids |-> st.uuids + 1,
              saved |-> st.saved + 1]

PhotoTurn(st, p, idx, itemId, folderId, now) ==
    IF MatchDataUrl(p.dataUrl) = 0 THEN st
    ELSE IF ~Base64Decodes(p.dataUrl) THEN st
    ELSE IF p.createFails THEN st
    ELSE LET contentType == ContentType(p.dataUrl)
             ext == IF contentType = "image/png" THEN "png" ELSE "jpg"
             name == itemId \o "-" \o FormatSeconds(now) \o "-"
                         \o PadStart(idx + 1, 2) \o "." \o ext
             fileId == "file" \o ToString(Len(st.files) + 1)
             Appended(res) ==
                 [doc |-> res.doc,
                  files |-> Append(st.files, [folder |-> folderId, name |-> name]),
                  uuids |-> st.uuids + 1,
                  saved |-> IF res.raised THEN st.saved ELSE st.saved + 1]
         IN  Appended(appendRowAtKey_(st.doc, SH_PHOTOS, "PhotoID",
                          PhotoRecord(UuidText(getUuid(st.uuids + 1)), itemId, fileId,
                                      FormatSeconds(now)), p.fault))

RECURSIVE PhotoLoop(_, _, _, _, _, _)
PhotoLoop(st, photos, idx, itemId, folderId, now) ==
    IF idx >= Len(photos) THEN st
    ELSE PhotoLoop(PhotoTurn(st, photos[idx + 1], idx, itemId, folderId, now),
                   photos, idx + 1, itemId, folderId, now)

\* savePhotosDataUrls(batchId, itemId, photos); new Date() returns the
\* instant clock
savePhotosDataUrls(batchId, itemId, photos) ==
    \E entry \in {PhotosEntry(props, batchId, itemId, photos)} :
    LET called == [NoCall EXCEPT !.op = "savePhotosDataUrls", !.batchId = batchId,
                                 !.itemId = itemId, !.submitted = Len(photos)]
        doc == ensureSheet_(ss, SH_PHOTOS, HEADERS[SH_PHOTOS])
    IN  /\ calls' = calls + 1
        /\ UNCHANGED <<props, folders, clock, reqs, hist>>
        /\ CASE entry = "throw" ->
                   /\ last' = [called EXCEPT !.raised = TRUE]
                   /\ UNCHANGED <<ss, files, uuids>>
             [] entry = "return" ->
                   /\ last' = called
                   /\ UNCHANGED <<ss, files, uuids>>
             [] entry = "ensure, throw" ->
                   /\ ss' = doc
                   /\ last' = [called EXCEPT !.raised = TRUE]
                   /\ UNCHANGED <<files, uuids>>
             [] OTHER ->
                   \E st \in {PhotoLoop([doc |-> doc, files |-> files,
                                          uuids |-> uuids, saved |-> 0],
                                         photos, 0, itemId,
                                         props["PHOTOS_" \o batchId], clock)} :
                       /\ ss' = st.doc
                       /\ files' = st.files
                       /\ uuids' = st.uuids
                       /\ last' = [called EXCEPT !.saved = st.saved, !.photos = photos]

\* ------------------------------------------- document-level specification
\* The four operations the form calls, one request at a time.

Clients == {"", " Acme", "Bolt"}

Assessors == {"", "Ann"}

Instants == 0..MaxClock

BatchIdInputs == {""} \cup {"BATCH-" \o FormatMillis(t) : t \in Instants}

SelectionInputs ==
    { [code |-> "STRUCT_DAMAGED", note |-> <<"seat", "REPLACEMENT", "NEEDED">>,
       localized |-> TRUE, location |-> "leg", extent |-> "10"],
      [code |-> "WOP_COCKLING", note |-> <<"Reupholstery", "needed">>,
       localized |-> FALSE, location |-> "", extent |-> ""] }

SeqsUpTo(S, n) == UNION { [1..k -> S] : k \in 0..n }

PayloadInputs ==
    {NullPayload} \cup
    { [EmptyPayload EXCEPT !.batchId = b, !.type = "Chair", !.historicYes = h[1],
                           !.historicCode = h[2], !.selections = sels]
      : b \in BatchIdInputs, h \in {<<FALSE, "">>, <<TRUE, "H1">>},
        sels \in SeqsUpTo(SelectionInputs, MaxSelections) }

ItemIdInputs == {"", "ITM-uuid0001"}

PngUrl == <<"data:", "image/", "png", ";base64,", "QUJD">>

JpegUrl == <<"data:", "image/", "jpeg", ";base64,", "Zm9v", "QUJD">>

TextUrl == <<"data:", "text/", "plain", ";base64,", "QUJD">>

BadBase64Url == <<"data:", "image/", "png", ";base64,", "!!">>

\* photo entries and what the folder and the sheet do with each
PhotoInputs ==
    { [dataUrl |-> PngUrl, createFails |-> FALSE, fault |-> 0],
      [dataUrl |-> JpegUrl, createFails |-> FALSE, fault |-> 0],
      [dataUrl |-> TextUrl, createFails |-> FALSE, fault |-> 0],
      [dataUrl |-> BadBase64Url, createFails |-> FALSE, fault |-> 0],
      [dataUrl |-> PngUrl, createFails |-> TRUE, fault |-> 0],
      [dataUrl |-> PngUrl, createFails |-> FALSE, fault |-> 1],
      [dataUrl |-> PngUrl, createFails |-> FALSE, fault |-> 2] }

\* The photo lists of a call: every list for a call that reaches the photos,
\* the empty list and a one-photo list for a call that stops before them.
PhotoListInputs(batchId, itemId) ==
    IF batchId # "" /\ itemId # "" /\ ("PHOTOS_" \o batchId) \in DOMAIN props
    THEN SeqsUpTo(PhotoInputs, MaxPhotos)
    ELSE {<<>>, <<[dataUrl |-> PngUrl, createFails |-> FALSE, fault |-> 0]>>}

\* the externally authored lookup table of notes
NotesRulesSheet ==
    << <<"Code", "NoteText">>, <<"", "unused">>, <<"h1 ", "Aged finish">> >>

Init ==
    /\ ss \in {NoDoc, ("NotesRules" :> NotesRulesSheet)}
    /\ props = [k \in {} |-> ""]
    /\ folders = {}
    /\ files = <<>>
    /\ clock = 0
    /\ uuids = 0
    /\ calls = 0
    /\ reqs = <<>>
    /\ hist = [b \in {} |-> 0]
    /\ last = NoCall

NewBatch ==
    /\ calls < MaxCalls
    /\ \E client \in Clients, assessorName \in Assessors :
          newBatch(client, assessorName)

SaveItem ==
    /\ calls < MaxCalls
    /\ \E payload \in PayloadInputs : saveItem(payload)

SavePhotosDataUrls ==
    /\ calls < MaxCalls
    /\ \E batchId \in BatchIdInputs, itemId \in ItemIdInputs :
          \E photos \in PhotoListInputs(batchId, itemId) :
              savePhotosDataUrls(batchId, itemId, photos)

InitializeDatabase == calls < MaxCalls /\ initializeDatabase

\* Time passes between two readings of new Date(); two requests that read it
\* within one millisecond read the same instant.
Tick ==
    /\ clock < MaxClock
    /\ clock' = clock + 1
    /\ UNCHANGED <<ss, props, folders, files, uuids, calls, reqs, hist, last>>

Next == NewBatch \/ SaveItem \/ SavePhotosDataUrls \/ InitializeDatabase \/ Tick

Spec == Init /\ [][Next]_vars

\* ------------------------------------------------ claims on the operations

\* A step of the specification that is a call of the operation op.
CallOf(op) == calls' # calls /\ last'.op = op

\* An entry that matches the pattern and whose decode and file creation
\* succeed: the entry reaches the append to the Photos sheet.
ReachesAppend(p) ==
    /\ MatchDataUrl(p.dataUrl) # 0
    /\ Base64Decodes(p.dataUrl)
    /\ ~p.createFails

\* An entry whose decode, file creation and append all succeed.
Succeeds(p) == ReachesAppend(p) /\ p.fault = 0

\* An entry whose append fails after its first cell was written.
LeavesPartRow(p) == ReachesAppend(p) /\ p.fault >= 2

CountOf(photos, Test(_)) == Cardinality({i \in 1..Len(photos) : Test(photos[i])})

\* The data rows of a sheet of the document that hold a value in some cell.
RowsOf(doc, name) ==
    IF name \notin DOMAIN doc THEN {}
    ELSE {r \in 2..Len(doc[name]) : \E c \in 1..Len(doc[name][r]) : doc[name][r][c] # ""}

C5_SavedIsRowsAdded ==
    [][(CallOf("savePhotosDataUrls") /\ last'.photos # <<>>)
          => /\ last'.saved = CountOf(last'.photos, Succeeds)
             /\ Cardinality(RowsOf(ss', SH_PHOTOS) \ RowsOf(ss, SH_PHOTOS)) = last'.saved]_vars

\* C5 amended: the returned count is the number of entries that match and whose
\* decode, file creation and append all succeeded, whatever happened to the
\* entries before them; a file is created for every entry that reached the
\* append; the rows added to the Photos sheet are the counted ones and one for
\* every entry whose append failed after its first cell was written.
C5_SavedIsSucceededEntries ==
    [][(CallOf("savePhotosDataUrls") /\ last'.photos # <<>>)
          => /\ ~last'.raised
             /\ last'.saved = CountOf(last'.photos, Succeeds)
             /\ Len(files') - Len(files) = CountOf(last'.photos, ReachesAppend)
             /\ RowsOf(ss, SH_PHOTOS) \subseteq RowsOf(ss', SH_PHOTOS)
             /\ Cardinality(RowsOf(ss', SH_PHOTOS) \ RowsOf(ss, SH_PHOTOS))
                    = last'.saved + CountOf(last'.photos, LeavesPartRow)]_vars

\* C5 witness: a call whose first entry failed in its append, after the first
\* cell, and whose second entry was saved and counted.
C5_Witness ==
    /\ last.op = "savePhotosDataUrls"
    /\ Len(last.photos) = 2
    /\ LeavesPartRow(last.photos[1])
    /\ Succeeds(last.photos[2])
    /\ last.saved = 1

\* The objects of the Items sheet that belong to the batch.
ItemsOf(doc, batchId) ==
    SelectSeq(getAll_(doc, SH_ITEMS), LAMBDA r : r["BatchID"] = batchId)

\* C6: with saveItem calls one at a time, the k-th item saved for a batch
\* identifier gets the code 'I' followed by k padded to 3 digits, whatever was
\* saved for other batches in between, and the codes of one batch on the Items
\* sheet are pairwise distinct.
C6_CodeIsCountWithinBatch ==
    /\ (last.op = "saveItem" /\ ~last.raised)
          => last.code = "I" \o PadStart(hist[last.batchId], 3)
    /\ \A b \in DOMAIN hist :
          LET Distinct(items) ==
                  /\ Len(items) = hist[b]
                  /\ \A i, j \in 1..Len(items) :
                        items[i]["Code"] = items[j]["Code"] => i = j
          IN  Distinct(ItemsOf(ss, b))

\* C6 witness: the second item of a batch got I002 while an item of another
\* batch was saved as well.
C6_Witness ==
    /\ last.op = "saveItem"
    /\ ~last.raised
    /\ last.code = "I002"
    /\ \E b \in DOMAIN hist : b # last.batchId /\ hist[b] = 1

\* the part of the state that the operations write to
Stored == <<ss, props, folders, files, uuids, hist>>

\* C7: newBatch with an empty client or assessorName, and saveItem with no
\* payload or an empty payload.batchId, raise and leave the state unchanged.
C7_InvalidArgumentsChangeNothing ==
    [][/\ (CallOf("newBatch") /\ (last'.client = "" \/ last'.assessor = ""))
             => (last'.raised /\ UNCHANGED Stored)
       /\ (CallOf("saveItem") /\ (last'.noPayload \/ last'.batchId = ""))
             => (last'.raised /\ UNCHANGED Stored)]_vars

\* C7 witness: newBatch raised on an empty client when a batch, its sheet, its
\* folder and its side-channel entries were there.
C7_Witness ==
    /\ last.op = "newBatch"
    /\ last.raised
    /\ last.client = ""
    /\ SH_BATCHES \in DOMAIN ss
    /\ folders # {}
    /\ DOMAIN props # {}

\* C8 as stated: every newBatch call generates an identifier no earlier call
\* generated, and no operation overwrites a CLIENT_ or PHOTOS_ entry.
C8_BatchIdIsUnique ==
    [][/\ (CallOf("newBatch") /\ ~last'.raised)
             => ("CLIENT_" \o last'.batchId) \notin DOMAIN props
       /\ \A k \in DOMAIN props : k \in DOMAIN props' /\ props'[k] = props[k]]_vars

\* ---------------------------------------------- specification of the notes
\* buildNotes_ applied to the payloads of the form.

NoteCodes == Range(structural) \cup Range(flattening) \cup {"SURFACE_DIRT"}

\* the payloads: historicYes and the codes of the selections, buildNotes_
\* not yet applied
NotesInit ==
    /\ ss = NoDoc
    /\ props = [k \in {} |-> ""]
    /\ folders = {}
    /\ files = <<>>
    /\ clock = 0
    /\ uuids = 0
    /\ calls = 0
    /\ reqs = <<>>
    /\ hist = [b \in {} |-> 0]
    /\ \E historicYes \in BOOLEAN, selCodes \in SeqsUpTo(NoteCodes, MaxNoteCodes) :
          last = [NoCall EXCEPT !.historicYes = historicYes, !.codes = selCodes]

BuildNotes ==
    /\ last.op = "none"
    /\ last' = [last EXCEPT !.op = "buildNotes_",
                            !.notes = buildNotes_(last.historicYes, last.codes)]
    /\ UNCHANGED <<ss, props, folders, files, clock, uuids, calls, reqs, hist>>

NotesNext == BuildNotes

SpecNotes == NotesInit /\ [][NotesNext]_vars

\* The sentences of the matched categories in the stated order.
SentencesFor(historicYes, codes) ==
    (IF historicYes THEN <<HistoricSentence1, HistoricSentence2>> ELSE <<>>)
    \o (IF codes # {} THEN <<MinorSentence>> ELSE <<>>)
    \o (IF codes \cap Range(structural) # {} THEN <<StructuralSentence>> ELSE <<>>)
    \o (IF codes \cap Range(flattening) # {} THEN <<FlatteningSentence>> ELSE <<>>)

\* C9 as stated: buildNotes_ returns the sentences of the matched categories,
\* in the stated order, joined by newline separators.
C9_SentencesJoinedByNewlines ==
    last.op = "buildNotes_"
        => last.notes = Join(SentencesFor(last.historicYes, Range(last.codes)), "\n")

\* ------------------------------------ specification of concurrent appends
\* Requests that run appendRowAtKey_ on one sheet, their platform calls
\* interleaved.  A request holds its record, the headers it read, the row it
\* allocated, the key of the record it writes next, and, for the claim, the
\* requests whose key cell was written when it allocated.

ConcSheet == SH_BATCHES

ConcKey == "BatchID"

ConcRecords ==
    { << <<"BatchID", "b1">>, <<"Client", "c1">> >>,
      << <<"BatchID", "b2">>, <<"Client", "c2">> >>,
      << <<"BatchID", "b3">> >> }

\* the sheet with its canonical header and n records appended before
ConcGrid(n) ==
    LET Filled(g) ==
            [r \in 1..Max({Len(g), n + 1}) |->
                IF r = 1 THEN g[1]
                ELSE IF r <= n + 1 THEN <<"b0", "c0">> \o Blanks(Len(g[1]) - 2)
                ELSE Blanks(Len(g[1]))]
    IN  Filled(ensureSheet_(NoDoc, ConcSheet, HEADERS[ConcSheet])[ConcSheet])

Request(obj) ==
    [pc |-> "getHeaders_", obj |-> obj, headers |-> <<>>, row |-> 0, next |-> 1,
     seen |-> {}]

ConcInit ==
    /\ ss \in { (ConcSheet :> ConcGrid(n)) : n \in 0..MaxConcRows }
    /\ props = [k \in {} |-> ""]
    /\ folders = {}
    /\ files = <<>>
    /\ clock = 0
    /\ uuids = 0
    /\ calls = 0
    /\ reqs = <<>>
    /\ hist = [b \in {} |-> 0]
    /\ last = NoCall

\* whether the request has written the key cell of its record
KeyWritten(q) == \E k \in 1..(q.next - 1) : q.obj[k][1] = ConcKey

\* a request calls appendRowAtKey_ and finds the sheet
ConcCall ==
    /\ Len(reqs) < MaxRequests
    /\ \E obj \in ConcRecords : reqs' = Append(reqs, Request(obj))
    /\ UNCHANGED <<ss, props, folders, files, clock, uuids, calls, hist, last>>

\* const headers = getHeaders_(sh)
ConcGetHeaders ==
    /\ \E i \in 1..Len(reqs) :
          /\ reqs[i].pc = "getHeaders_"
          /\ reqs' = [reqs EXCEPT ![i].pc = "nextFreeRowByHeader_",
                                  ![i].headers = getHeaders_(ss[ConcSheet])]
    /\ UNCHANGED <<ss, props, folders, files, clock, uuids, calls, hist, last>>

\* const r = nextFreeRowByHeader_(sh, keyHeader)
ConcAllocate ==
    /\ \E i \in 1..Len(reqs) :
          /\ reqs[i].pc = "nextFreeRowByHeader_"
          /\ \E r \in {nextFreeRowByHeader_(ss[ConcSheet], ConcKey)} :
                reqs' = [reqs EXCEPT
                            ![i].pc = IF r = 0 THEN "raised" ELSE "setValue",
                            ![i].row = r,
                            ![i].seen = {j \in 1..Len(reqs) : KeyWritten(reqs[j])}]
    /\ UNCHANGED <<ss, props, folders, files, clock, uuids, calls, hist, last>>

\* one turn of the forEach: the setValue of the next key of the record, when
\* the headers hold it
ConcSetValue ==
    /\ \E i \in 1..Len(reqs) :
          /\ reqs[i].pc = "setValue"
          /\ \E q \in {reqs[i]} :
             \E idx \in {IndexOf(q.headers, q.obj[q.next][1])} :
                /\ ss' = IF idx = 0 THEN ss
                         ELSE [ss EXCEPT ![ConcSheet] =
                                  setValue(@, q.row, idx, q.obj[q.next][2])]
                /\ reqs' = [reqs EXCEPT
                               ![i].next = q.next + 1,
                               ![i].pc = IF q.next = Len(q.obj) THEN "done"
                                         ELSE "setValue"]
    /\ UNCHANGED <<props, folders, files, clock, uuids, calls, hist, last>>

ConcNext == ConcCall \/ ConcGetHeaders \/ ConcAllocate \/ ConcSetValue

SpecConc == ConcInit /\ [][ConcNext]_vars

\* the rows that hold the key of a record of a request
ConcNewRows ==
    {r \in FilledRows(ss[ConcSheet], ConcKey) :
        CellAt(ss[ConcSheet], r, KeyColumn(ss[ConcSheet], ConcKey)) # "b0"}

\* C10: two appends get the same row only when neither had written its key
\* cell when the other allocated its row, and the requests that completed
\* leave one new row for each distinct row they allocated: fewer rows than
\* requests when two of them interleaved.
C10_SameRowOnlyWhenInterleaved ==
    /\ \A i, j \in 1..Len(reqs) :
          (i # j /\ reqs[i].row # 0 /\ reqs[i].row = reqs[j].row)
              => (j \notin reqs[i].seen /\ i \notin reqs[j].seen)
    /\ (\A i \in 1..Len(reqs) : reqs[i].pc = "done")
          => Cardinality(ConcNewRows) = Cardinality({reqs[i].row : i \in 1..Len(reqs)})

\* C10 witness: two requests completed and the sheet holds one new row, with
\* the key of one record and the client of the other.
C10_Witness ==
    /\ Len(reqs) = 2
    /\ \A i \in 1..Len(reqs) : reqs[i].pc = "done"
    /\ Cardinality(ConcNewRows) = 1
    /\ \E r \in ConcNewRows : ss[ConcSheet][r][1] = "b3" /\ ss[ConcSheet][r][2] = "c1"

\* ------------------------------------------------- claim on the whole store

\* the key header each operation passes to appendRowAtKey_ for its sheet
KeyOf ==
    (SH_BATCHES :> "BatchID") @@ (SH_ITEMS :> "ItemID")
    @@ (SH_SELECT :> "SelectionID") @@ (SH_PHOTOS :> "PhotoID")

\* the sheets of the document that the system writes records to
RecordSheets(doc) == DOMAIN doc \cap DOMAIN KeyOf

\* the last row of the sheet with a non-blank key, 1 when it has none or the
\* sheet is not there
LastKeyRow(doc, name) ==
    IF name \notin DOMAIN doc THEN 1
    ELSE Max(FilledRows(doc[name], KeyOf[name]) \cup {1})

\* the rows of a sheet that hold a value in some cell, the Header Row included
HeldRows(g) == {r \in 1..Len(g) : \E c \in 1..Len(g[r]) : g[r][c] # ""}

\* C11: with the operations one at a time on sheets the system created, every
\* step leaves each row that held a value as it was, cell for cell, keeps the
\* keys of each sheet in the rows from 2 on without a gap, and newBatch and
\* saveItem write their record to the row right below the last non-blank key.
C11_StoreIsAppendOnly ==
    [][/\ \A name \in DOMAIN ss :
             /\ name \in DOMAIN ss'
             /\ \A r \in HeldRows(ss[name]) :
                   \A c \in 1..Len(ss[name][r]) :
                       CellAt(ss'[name], r, c) = ss[name][r][c]
       /\ \A name \in RecordSheets(ss') :
             FilledRows(ss'[name], KeyOf[name]) = 2..LastKeyRow(ss', name)
       /\ (CallOf("newBatch") /\ ~last'.raised)
             => /\ last'.row = LastKeyRow(ss, SH_BATCHES) + 1
                /\ LastKeyRow(ss', SH_BATCHES) = last'.row
       /\ (CallOf("saveItem") /\ ~last'.raised)
             => /\ last'.row = LastKeyRow(ss, SH_ITEMS) + 1
                /\ LastKeyRow(ss', SH_ITEMS) = last'.row
                /\ LastKeyRow(ss', SH_SELECT)
                      = LastKeyRow(ss, SH_SELECT) + Len(last'.codes)]_vars

\* C11 witness: the Photos sheet holds the row an append left unfinished and,
\* right below it, the record of a later photo, and the Batches sheet holds
\* a record as well.
C11_Witness ==
    /\ SH_PHOTOS \in DOMAIN ss
    /\ SH_BATCHES \in DOMAIN ss
    /\ LastKeyRow(ss, SH_BATCHES) = 2
    /\ LastKeyRow(ss, SH_PHOTOS) = 3
    /\ CellAt(ss[SH_PHOTOS], 2, KeyColumn(ss[SH_PHOTOS], "ItemID")) = ""
    /\ CellAt(ss[SH_PHOTOS], 3, KeyColumn(ss[SH_PHOTOS], "ItemID")) # ""

====
